---- MODULE Spec2Model ----
(***************************************************************************)
(* Model of numpy_ext: the window generators rolling / expanding, the      *)
(* apply engines rolling_apply / expanding_apply (sequential and joblib    *)
(* parallel), the NaN padding helpers and expstep_range.                   *)
(*                                                                         *)
(* An ndarray is a record [shape, data]: shape is the tuple of dimensions  *)
(* (<<>> for a 0-d array), data the flattened elements.  An element is a   *)
(* record [nan, val]: NaN or the number val.  Python's 0-based indices and *)
(* half-open slices are kept; PySlice converts to 1-based sequences.       *)
(***************************************************************************)
EXTENDS Integers, Sequences, FiniteSets, TLC

\* ---------------------------------------------------------------- bounds
MaxLen == 3
MaxVal == 2
MaxJobs == 2
MaxEnd == 3

\* ---------------------------------------------------------------- values
NaN == [nan |-> TRUE, val |-> 0]
Num(v) == [nan |-> FALSE, val |-> v]

Values == 1..MaxVal

Min2(a, b) == IF a < b THEN a ELSE b
Max2(a, b) == IF a > b THEN a ELSE b
Abs(a) == IF a < 0 THEN -a ELSE a

RECURSIVE Prod(_)
Prod(shape) == IF shape = <<>> THEN 1 ELSE Head(shape) * Prod(Tail(shape))

\* ndarray attributes
ndim(array) == Len(array.shape)
size(array) == Prod(array.shape)

Array1D(data) == [shape |-> <<Len(data)>>, data |-> data]

\* np.arange(k): 0 .. k-1, empty when k <= 0
arange(k) == [i \in 1..k |-> i - 1]

\* a[start:stop] for a 1-D sequence, with Python's treatment of negative
\* and out-of-range bounds
PyNorm(x, n) == IF x < 0 THEN Max2(x + n, 0) ELSE Min2(x, n)
PySlice(a, start, stop) ==
    LET s == PyNorm(start, Len(a))
        e == PyNorm(stop, Len(a))
    IN  IF s >= e THEN <<>> ELSE SubSeq(a, s + 1, e)

\* ---------------------------------------------------------------- nans
nans(shape) == [i \in 1..shape |-> NaN]

prepend_na(array, n) == nans(n) \o array

\* ---------------------------------------------------------------- rolling
\* faulty variant of rolling_rows: the leading windows are not NaN-padded
rolling_rows_nopad(array, window, skip_nans) ==
    LET placeholders ==
            IF skip_nans THEN <<>>
            ELSE [k \in 1..(window - 1) |-> PySlice(array, 0, (k - 1) + 1)]
        full == [k \in 1..(Len(array) - (window - 1)) |->
                     PySlice(array, k - 1, (k - 1) + window)]
    IN  placeholders \o full

rolling_rows(array, window, skip_nans) ==
    LET placeholders ==
            IF skip_nans THEN <<>>
            ELSE [k \in 1..(window - 1) |->
                     prepend_na(PySlice(array, 0, (k - 1) + 1), (window - 1) - (k - 1))]
        full == [k \in 1..(Len(array) - (window - 1)) |->
                     PySlice(array, k - 1, (k - 1) + window)]
    IN  placeholders \o full

\* faulty variant of rolling: the size check is missing
rolling_unchecked(array, window, skip_nans) ==
    IF ~window.isInt THEN [err |-> "ConfigurationError", rows |-> <<>>]
    ELSE [err |-> "ok", rows |-> rolling_rows(array, window.val, skip_nans)]

\* window is [isInt, val]: isInt is isinstance(window, int)
rolling(array, window, skip_nans) ==
    IF ~window.isInt THEN [err |-> "ConfigurationError", rows |-> <<>>]
    ELSE IF Len(array) < window.val THEN [err |-> "RangeError", rows |-> <<>>]
    ELSE [err |-> "ok", rows |-> rolling_rows(array, window.val, skip_nans)]

\* ---------------------------------------------------------------- expanding
\* faulty variant of expanding_rows: the leading windows hold data, not NaN
expanding_rows_data(array, min_periods, skip_nans) ==
    LET placeholders ==
            IF skip_nans THEN <<>>
            ELSE [k \in 1..(min_periods - 1) |-> PySlice(array, 0, k)]
        full == [k \in 1..(Len(array) + 1 - min_periods) |->
                     PySlice(array, 0, min_periods + (k - 1))]
    IN  placeholders \o full

expanding_rows(array, min_periods, skip_nans) ==
    LET placeholders ==
            IF skip_nans THEN <<>>
            ELSE [k \in 1..(min_periods - 1) |-> nans(k)]
        full == [k \in 1..(Len(array) + 1 - min_periods) |->
                     PySlice(array, 0, min_periods + (k - 1))]
    IN  placeholders \o full

expanding(array, min_periods, skip_nans) ==
    IF ~min_periods.isInt THEN [err |-> "ConfigurationError", rows |-> <<>>]
    ELSE IF Len(array) < min_periods.val THEN [err |-> "RangeError", rows |-> <<>>]
    ELSE [err |-> "ok", rows |-> expanding_rows(array, min_periods.val, skip_nans)]

\* ---------------------------------------------------------------- func
\* The caller's func: a deterministic function of the slices it is given
\* (one per input array).  "sum" adds every element of every slice, "enc"
\* reads the slices as decimal digits (so it tells windows apart by content
\* and order).  It raises when the first slice contains the value poison
\* (poison = 0: it never raises).
FuncNames == {"sum", "enc"}

RECURSIVE SumSeq(_)
SumSeq(s) == IF s = <<>> THEN 0 ELSE Head(s) + SumSeq(Tail(s))

RECURSIVE EncSeq(_, _)
EncSeq(s, acc) == IF s = <<>> THEN acc ELSE EncSeq(Tail(s), 10 * acc + Head(s))

RECURSIVE Flatten(_)
Flatten(ss) == IF ss = <<>> THEN <<>> ELSE Head(ss) \o Flatten(Tail(ss))

Func(f, slices) ==
    IF f = "sum" THEN SumSeq(Flatten(slices)) ELSE EncSeq(Flatten(slices), 0)

FuncRaises(poison, slices) == \E i \in 1..Len(slices[1]) : slices[1][i] = poison

\* ---------------------------------------------------------------- apply
\* _apply_func_to_arrays(idxs): slices every array by the index window and
\* calls func.  Indexing a 0-d array with an index array raises IndexError
\* before func is called.
TakeIdxs(array, idxs) == [k \in 1..Len(idxs) |-> array.data[idxs[k] + 1]]

apply_func_to_arrays(f, poison, arrays, idxs) ==
    IF \E a \in 1..Len(arrays) : ndim(arrays[a]) = 0
    THEN [err |-> "IndexError", val |-> NaN, called |-> 0]
    ELSE LET slices == [a \in 1..Len(arrays) |-> TakeIdxs(arrays[a], idxs)]
         IN  IF FuncRaises(poison, slices)
             THEN [err |-> "UserFunctionError", val |-> NaN, called |-> 1]
             ELSE [err |-> "ok", val |-> Num(Func(f, slices)), called |-> 1]

\* max(len(x.shape) for x in arrays)
MaxNdim(arrays) ==
    CHOOSE m \in {ndim(arrays[a]) : a \in 1..Len(arrays)} :
        \A a \in 1..Len(arrays) : ndim(arrays[a]) <= m

\* the checks of rolling_apply up to and including the call of rolling();
\* len(arrays[0]) raises TypeError for a 0-d array
rolling_apply_pre(window, arrays) ==
    IF ~window.isInt THEN [err |-> "ConfigurationError", rows |-> <<>>]
    ELSE IF MaxNdim(arrays) # 1 THEN [err |-> "ShapeError", rows |-> <<>>]
    ELSE IF Cardinality({size(arrays[a]) : a \in 1..Len(arrays)}) # 1
         THEN [err |-> "LengthMismatchError", rows |-> <<>>]
    ELSE IF ndim(arrays[1]) = 0 THEN [err |-> "TypeError", rows |-> <<>>]
    ELSE rolling(arange(arrays[1].shape[1]), window, TRUE)

\* faulty variant of expanding_apply_pre: the windows come from rolling()
expanding_apply_pre_rolling(min_periods, arrays) ==
    IF ~min_periods.isInt THEN [err |-> "ConfigurationError", rows |-> <<>>]
    ELSE IF MaxNdim(arrays) # 1 THEN [err |-> "ShapeError", rows |-> <<>>]
    ELSE IF Cardinality({size(arrays[a]) : a \in 1..Len(arrays)}) # 1
         THEN [err |-> "LengthMismatchError", rows |-> <<>>]
    ELSE IF ndim(arrays[1]) = 0 THEN [err |-> "TypeError", rows |-> <<>>]
    ELSE rolling(arange(arrays[1].shape[1]), min_periods, TRUE)

expanding_apply_pre(min_periods, arrays) ==
    IF ~min_periods.isInt THEN [err |-> "ConfigurationError", rows |-> <<>>]
    ELSE IF MaxNdim(arrays) # 1 THEN [err |-> "ShapeError", rows |-> <<>>]
    ELSE IF Cardinality({size(arrays[a]) : a \in 1..Len(arrays)}) # 1
         THEN [err |-> "LengthMismatchError", rows |-> <<>>]
    ELSE IF ndim(arrays[1]) = 0 THEN [err |-> "TypeError", rows |-> <<>>]
    ELSE expanding(arange(arrays[1].shape[1]), min_periods, TRUE)

\* faulty variant of seq_apply: a window whose call raises is recorded as
\* NaN and the loop goes on
RECURSIVE seq_apply_swallow(_, _, _, _)
seq_apply_swallow(f, poison, arrays, rolls) ==
    IF rolls = <<>> THEN [err |-> "ok", arr |-> <<>>, calls |-> 0]
    ELSE LET r == apply_func_to_arrays(f, poison, arrays, Head(rolls))
             rest == seq_apply_swallow(f, poison, arrays, Tail(rolls))
         IN  [err |-> "ok", arr |-> <<r.val>> \o rest.arr, calls |-> r.called + rest.calls]

\* [_apply_func_to_arrays(idxs) for idxs in rolls]: in order, stopping at
\* the first window that raises
RECURSIVE seq_apply(_, _, _, _)
seq_apply(f, poison, arrays, rolls) ==
    IF rolls = <<>> THEN [err |-> "ok", arr |-> <<>>, calls |-> 0]
    ELSE LET r == apply_func_to_arrays(f, poison, arrays, Head(rolls))
         IN  IF r.err # "ok" THEN [err |-> r.err, arr |-> <<>>, calls |-> r.called]
             ELSE LET rest == seq_apply(f, poison, arrays, Tail(rolls))
                  IN  [err |-> rest.err,
                       arr |-> IF rest.err = "ok" THEN <<r.val>> \o rest.arr ELSE <<>>,
                       calls |-> r.called + rest.calls]

\* faulty variant of apply_return: pads with one NaN too many
apply_return_overpad(arr, n) ==
    IF n + 1 < 0 THEN [err |-> "NegativeDimensionsError", result |-> <<>>]
    ELSE [err |-> "ok", result |-> prepend_na(arr, n + 1)]

\* return prepend_na(arr, size=...): np.empty of a negative size raises
apply_return(arr, n) ==
    IF n < 0 THEN [err |-> "NegativeDimensionsError", result |-> <<>>]
    ELSE [err |-> "ok", result |-> prepend_na(arr, n)]

\* faulty variant of gather_results: the outputs in completion order
gather_by_completion(out, completed) == [k \in 1..Len(completed) |-> out[completed[k]]]

\* Parallel(n_jobs)(delayed(_apply_func_to_arrays)(idxs) for idxs in rolls):
\* the list of the tasks' outputs, in the order the tasks were generated
gather_results(out, completed) == [k \in 1..Len(completed) |-> out[k]]

\* ---------------------------------------------------------------- expstep_range
\* the while loop of expstep_range; values is the list built so far
RECURSIVE expstep_loop(_, _, _, _, _, _, _, _)
expstep_loop(start, end, min_step, step_mult, sign, last, step, values) ==
    IF (start < end /\ last < end) \/ (start > end /\ last > end)
    THEN expstep_loop(start, end, min_step, step_mult, sign,
                      last + Max2(step, min_step) * sign,
                      Abs(step * step_mult),
                      Append(values, last))
    ELSE [values |-> values, last |-> last]

\* np.unique(values, return_index=True) then values[np.sort(idx)]: the first
\* occurrence of every value, in the original order
RECURSIVE unique_in_order(_, _)
unique_in_order(values, seen) ==
    IF values = <<>> THEN <<>>
    ELSE IF Head(values) \in seen THEN unique_in_order(Tail(values), seen)
    ELSE <<Head(values)>> \o unique_in_order(Tail(values), seen \cup {Head(values)})

\* round_func is None ("none") or np.ceil ("ceil"), the identity on integers
expstep_range(start, end, min_step, step_mult, round_func) ==
    IF step_mult <= 0 THEN [err |-> "ValueError", values |-> <<>>, last |-> start]
    ELSE IF min_step <= 0 THEN [err |-> "ValueError", values |-> <<>>, last |-> start]
    ELSE LET sign == IF start < end THEN 1 ELSE -1
             r == expstep_loop(start, end, min_step, step_mult, sign, start, min_step, <<>>)
         IN  [err |-> "ok",
              values |-> IF round_func = "none" THEN r.values
                         ELSE unique_in_order(r.values, {}),
              last |-> r.last]

\* ---------------------------------------------------------------- inputs
Windows ==
    [isInt : {TRUE}, val : (-1)..(MaxLen + 1)] \cup {[isInt |-> FALSE, val |-> 2]}

Data1D == UNION {[1..n -> Values] : n \in 0..MaxLen}
Arrays1D == {Array1D(d) : d \in Data1D}
Arrays0D == {[shape |-> <<>>, data |-> <<v>>] : v \in Values}
Arrays2D == {[shape |-> <<r, c>>, data |-> [i \in 1..(r * c) |-> 1]] : r, c \in 1..2}

\* a second input array: one per shape, its data the pattern 2, 1, 2, ..
Pattern(n) == [i \in 1..n |-> 1 + (i % 2)]
OtherArrays ==
    {Array1D(Pattern(n)) : n \in 0..MaxLen}
        \cup {[shape |-> <<>>, data |-> <<1>>], [shape |-> <<1, 2>>, data |-> <<1, 1>>]}

ArrayTuples ==
    {<<a>> : a \in Arrays1D \cup Arrays0D \cup Arrays2D}
        \cup {<<a, b>> : a \in Arrays1D \cup Arrays0D \cup Arrays2D, b \in OtherArrays}

Poisons == 0..1
Steps == 0..2
Ends == (-1)..MaxEnd

NoWindow == [isInt |-> TRUE, val |-> 1]
NoRange == [start |-> 0, end |-> 0, min_step |-> 1, step_mult |-> 1, round_func |-> "none"]

\* ---------------------------------------------------------------- state
VARIABLES
    pc,          \* "idle", "parallel" (worker tasks outstanding) or "done"
    call,        \* the arguments of the current call
    outcome,     \* "none", "ok" or the error the call raised
    result,      \* what the call returned (<<>> when it raised)
    last,        \* expstep_range: the loop variable last when the loop ended
    funcCalls,   \* how many times func has been invoked by the current call
    tasks,       \* the index windows handed to Parallel, in generation order
    status,      \* per task: "pending", "running", "done" or the error it raised
    out,         \* per task: the value it returned
    completed    \* the tasks in the order they completed

vars == <<pc, call, outcome, result, last, funcCalls, tasks, status, out, completed>>

MkCall(op, window, arrays, skip, f, poison, n_jobs, range) ==
    [op |-> op, window |-> window, arrays |-> arrays, skip_nans |-> skip,
     func |-> f, poison |-> poison, n_jobs |-> n_jobs, range |-> range]

Init ==
    /\ pc = "idle"
    /\ call = MkCall("none", NoWindow, <<>>, FALSE, "sum", 0, 1, NoRange)
    /\ outcome = "none"
    /\ result = <<>>
    /\ last = 0
    /\ funcCalls = 0
    /\ tasks = <<>>
    /\ status = <<>>
    /\ out = <<>>
    /\ completed = <<>>

NoPool == /\ tasks' = <<>> /\ status' = <<>> /\ out' = <<>> /\ completed' = <<>>

Finish(err, res, calls) ==
    /\ pc' = "done"
    /\ outcome' = err
    /\ result' = res
    /\ funcCalls' = calls

\* rolling(array, window, skip_nans), the generator consumed to its end
Rolling ==
    /\ pc = "idle"
    /\ \E a \in Arrays1D, window \in Windows, skip \in BOOLEAN :
        /\ call' = MkCall("rolling", window, <<a>>, skip, "sum", 0, 1, NoRange)
        /\ LET r == rolling([i \in 1..Len(a.data) |-> Num(a.data[i])], window, skip)
           IN  Finish(r.err, r.rows, 0)
        /\ last' = 0
        /\ NoPool

\* expanding(array, min_periods, skip_nans), the generator consumed to its end
Expanding ==
    /\ pc = "idle"
    /\ \E a \in Arrays1D, min_periods \in Windows, skip \in BOOLEAN :
        /\ call' = MkCall("expanding", min_periods, <<a>>, skip, "sum", 0, 1, NoRange)
        /\ LET r == expanding([i \in 1..Len(a.data) |-> Num(a.data[i])], min_periods, skip)
           IN  Finish(r.err, r.rows, 0)
        /\ last' = 0
        /\ NoPool

\* the body shared by rolling_apply and expanding_apply once the index
\* windows (or the error of a check) are known
Apply(pre, window, arrays, f, poison, n_jobs) ==
    /\ last' = 0
    /\ IF pre.err # "ok"
       THEN Finish(pre.err, <<>>, 0) /\ NoPool
       ELSE IF n_jobs = 1
       THEN LET a == seq_apply(f, poison, arrays, pre.rows)
                r == apply_return(a.arr, window.val - 1)
            IN  /\ IF a.err # "ok" THEN Finish(a.err, <<>>, a.calls)
                   ELSE Finish(r.err, r.result, a.calls)
                /\ NoPool
       ELSE /\ pc' = "parallel"
            /\ outcome' = "none"
            /\ result' = <<>>
            /\ funcCalls' = 0
            /\ tasks' = pre.rows
            /\ status' = [k \in 1..Len(pre.rows) |-> "pending"]
            /\ out' = [k \in 1..Len(pre.rows) |-> NaN]
            /\ completed' = <<>>

RollingApply ==
    /\ pc = "idle"
    /\ \E f \in FuncNames, poison \in Poisons, window \in Windows,
       arrays \in ArrayTuples, n_jobs \in 1..MaxJobs :
        /\ call' = MkCall("rolling_apply", window, arrays, TRUE, f, poison, n_jobs, NoRange)
        /\ Apply(rolling_apply_pre(window, arrays), window, arrays, f, poison, n_jobs)

ExpandingApply ==
    /\ pc = "idle"
    /\ \E f \in FuncNames, poison \in Poisons, min_periods \in Windows,
       arrays \in ArrayTuples, n_jobs \in 1..MaxJobs :
        /\ call' = MkCall("expanding_apply", min_periods, arrays, TRUE, f, poison, n_jobs, NoRange)
        /\ Apply(expanding_apply_pre(min_periods, arrays), min_periods, arrays, f, poison, n_jobs)

Running == {k \in 1..Len(tasks) : status[k] = "running"}
Pending == {k \in 1..Len(tasks) : status[k] = "pending"}
Failed == {k \in 1..Len(tasks) : status[k] \notin {"pending", "running", "done"}}
LowestOf(S) == CHOOSE k \in S : \A j \in S : k <= j

\* the pool takes the next task, in generation order, when a worker is free
Dispatch ==
    /\ pc = "parallel"
    /\ Pending # {}
    /\ Cardinality(Running) < call.n_jobs
    /\ status' = [status EXCEPT ![LowestOf(Pending)] = "running"]
    /\ UNCHANGED <<pc, call, outcome, result, last, funcCalls, tasks, out, completed>>

\* a worker finishes its task: any running task may be the next to finish
Complete ==
    \E k \in Running :
        /\ pc = "parallel"
        /\ LET r == apply_func_to_arrays(call.func, call.poison, call.arrays, tasks[k])
           IN  /\ status' = [status EXCEPT ![k] = IF r.err = "ok" THEN "done" ELSE r.err]
               /\ out' = [out EXCEPT ![k] = r.val]
               /\ funcCalls' = funcCalls + r.called
        /\ completed' = Append(completed, k)
        /\ UNCHANGED <<pc, call, outcome, result, last, tasks>>

\* Parallel returns the list of outputs once every task is done, or raises
\* the error of a failed task; then return prepend_na(arr, size=...)
Gather ==
    /\ pc = "parallel"
    /\ \/ Failed # {}
       \/ \A k \in 1..Len(tasks) : status[k] = "done"
    /\ pc' = "done"
    /\ IF Failed # {}
       THEN /\ outcome' = status[LowestOf(Failed)]
            /\ result' = <<>>
       ELSE LET r == apply_return(gather_results(out, completed), call.window.val - 1)
            IN  /\ outcome' = r.err
                /\ result' = r.result
    /\ UNCHANGED <<call, last, funcCalls, tasks, status, out, completed>>

ExpstepRange ==
    /\ pc = "idle"
    /\ \E start \in Ends, end \in Ends, min_step \in Steps, step_mult \in Steps,
       round_func \in {"none", "ceil"} :
        /\ call' = MkCall("expstep_range", NoWindow, <<>>, FALSE, "sum", 0, 1,
                          [start |-> start, end |-> end, min_step |-> min_step,
                           step_mult |-> step_mult, round_func |-> round_func])
        /\ LET r == expstep_range(start, end, min_step, step_mult, round_func)
           IN  /\ Finish(r.err, r.values, 0)
               /\ last' = r.last
        /\ NoPool

Next ==
    \/ Rolling
    \/ Expanding
    \/ RollingApply
    \/ ExpandingApply
    \/ Dispatch
    \/ Complete
    \/ Gather
    \/ ExpstepRange

Spec == Init /\ [][Next]_vars

\* ---------------------------------------------------------------- properties
Done == pc = "done"
IsApply == call.op \in {"rolling_apply", "expanding_apply"}
W == call.window.val
All1D == \A a \in 1..Len(call.arrays) : ndim(call.arrays[a]) = 1
SameSize == \A a, b \in 1..Len(call.arrays) : size(call.arrays[a]) = size(call.arrays[b])
\* a call on one 1-D sequence with an integer window, 1 <= window <= n
OneSeq == Len(call.arrays) = 1 /\ ndim(call.arrays[1]) = 1
Seq1 == call.arrays[1].data
ValidWindow == call.window.isInt /\ 1 <= W /\ W <= Len(Seq1)
NeverRaises == \A i \in 1..Len(Seq1) : Seq1[i] # call.poison
NumSeq(s) == [i \in 1..Len(s) |-> Num(s[i])]

\* C1: rolling_apply(func, window, seq) with 1 <= window <= n returns n
\* entries: entries 0 .. window-2 are NaN and entry i >= window-1 is
\* func(seq[i-window+1 : i+1]).
C1_RollingApplyAligned ==
    (Done /\ call.op = "rolling_apply" /\ OneSeq /\ ValidWindow /\ NeverRaises) =>
        /\ outcome = "ok"
        /\ Len(result) = Len(Seq1)
        /\ \A i \in 0..(Len(Seq1) - 1) :
              IF i <= W - 2 THEN result[i + 1] = NaN
              ELSE result[i + 1] = Num(Func(call.func, <<SubSeq(Seq1, i - W + 2, i + 1)>>))

C1_Witness ==
    /\ Done /\ call.op = "rolling_apply" /\ call.func = "enc" /\ call.n_jobs = 1
    /\ call.arrays = <<Array1D(<<1, 2, 1>>)>> /\ call.window = [isInt |-> TRUE, val |-> 2]
    /\ result = <<NaN, Num(12), Num(21)>>

\* C2: expanding_apply(func, min_periods, seq) with 1 <= min_periods <= n
\* returns n entries: entries 0 .. min_periods-2 are NaN and entry
\* i >= min_periods-1 is func(seq[0 : i+1]).
C2_ExpandingApplyAligned ==
    (Done /\ call.op = "expanding_apply" /\ OneSeq /\ ValidWindow /\ NeverRaises) =>
        /\ outcome = "ok"
        /\ Len(result) = Len(Seq1)
        /\ \A i \in 0..(Len(Seq1) - 1) :
              IF i <= W - 2 THEN result[i + 1] = NaN
              ELSE result[i + 1] = Num(Func(call.func, <<SubSeq(Seq1, 1, i + 1)>>))

C2_Witness ==
    /\ Done /\ call.op = "expanding_apply" /\ call.func = "enc" /\ call.n_jobs = 1
    /\ call.arrays = <<Array1D(<<1, 2, 1>>)>> /\ call.window = [isInt |-> TRUE, val |-> 2]
    /\ result = <<NaN, Num(12), Num(121)>>

\* what the call in progress returns when it runs with n_jobs = 1
SequentialRun ==
    LET pre == IF call.op = "rolling_apply"
               THEN rolling_apply_pre(call.window, call.arrays)
               ELSE expanding_apply_pre(call.window, call.arrays)
        a == seq_apply(call.func, call.poison, call.arrays, pre.rows)
        r == apply_return(a.arr, W - 1)
    IN  IF pre.err # "ok" THEN [err |-> pre.err, result |-> <<>>]
        ELSE IF a.err # "ok" THEN [err |-> a.err, result |-> <<>>]
        ELSE r

\* C3: with n_jobs > 1 rolling_apply and expanding_apply return what they
\* return with n_jobs = 1, whatever the order in which the worker tasks
\* complete: result position (window-1)+k holds the output of the k-th
\* window in generation order.
C3_ParallelEqualsSequential ==
    (Done /\ IsApply /\ call.n_jobs > 1) =>
        /\ outcome = SequentialRun.err
        /\ result = SequentialRun.result
        /\ outcome = "ok" =>
              \A k \in 1..Len(tasks) :
                  result[(W - 1) + k] =
                      apply_func_to_arrays(call.func, call.poison, call.arrays, tasks[k]).val

\* the tasks completed out of generation order and their outputs differ
C3_Witness ==
    /\ Done /\ IsApply /\ call.n_jobs > 1 /\ outcome = "ok"
    /\ Len(completed) >= 2
    /\ completed[1] = 2 /\ completed[2] = 1
    /\ out[1] # out[2]

\* C4: rolling(seq, window, skip_nans) with 1 <= window <= n yields, in
\* increasing end position: without skip_nans n windows, the k-th of the
\* first window-1 being window-k NaNs followed by seq[0:k], then the full
\* windows seq[j : j+window], j = 0 .. n-window; with skip_nans exactly
\* those n-window+1 full windows.
C4_RollingWindows ==
    (Done /\ call.op = "rolling" /\ ValidWindow) =>
        LET n == Len(Seq1)
            lead == IF call.skip_nans THEN 0 ELSE W - 1
        IN  /\ outcome = "ok"
            /\ Len(result) = lead + (n - W + 1)
            /\ Len(result) = IF call.skip_nans THEN n - W + 1 ELSE n
            /\ \A k \in 1..lead :
                  result[k] = [i \in 1..W |-> IF i <= W - k THEN NaN
                                              ELSE Num(Seq1[i - (W - k)])]
            /\ \A j \in 0..(n - W) :
                  result[lead + j + 1] = NumSeq(SubSeq(Seq1, j + 1, j + W))

C4_Witness ==
    /\ Done /\ call.op = "rolling" /\ ~call.skip_nans
    /\ call.arrays = <<Array1D(<<1, 2, 2>>)>> /\ call.window = [isInt |-> TRUE, val |-> 3]
    /\ result = << <<NaN, NaN, Num(1)>>, <<NaN, Num(1), Num(2)>>, <<Num(1), Num(2), Num(2)>> >>

\* C5: expanding(seq, min_periods, skip_nans) with 1 <= min_periods <= n
\* yields: without skip_nans n windows, first min_periods-1 all-NaN
\* windows of sizes 1, 2, .., min_periods-1, then seq[0:min_periods], ..,
\* seq[0:n]; with skip_nans exactly those n-min_periods+1 growing windows.
C5_ExpandingWindows ==
    (Done /\ call.op = "expanding" /\ ValidWindow) =>
        LET n == Len(Seq1)
            lead == IF call.skip_nans THEN 0 ELSE W - 1
        IN  /\ outcome = "ok"
            /\ Len(result) = IF call.skip_nans THEN n - W + 1 ELSE n
            /\ \A k \in 1..lead : result[k] = [i \in 1..k |-> NaN]
            /\ \A j \in 0..(n - W) :
                  result[lead + j + 1] = NumSeq(SubSeq(Seq1, 1, W + j))

C5_Witness ==
    /\ Done /\ call.op = "expanding" /\ ~call.skip_nans
    /\ call.arrays = <<Array1D(<<1, 2, 2>>)>> /\ call.window = [isInt |-> TRUE, val |-> 3]
    /\ result = << <<NaN>>, <<NaN, NaN>>, <<Num(1), Num(2), Num(2)>> >>

\* C6: rolling_apply and expanding_apply fail with ShapeError whenever one
\* of the input arrays is not 1-dimensional (the window being a positive
\* integer).
C6_ShapeErrorForAnyNon1D ==
    (Done /\ IsApply /\ call.window.isInt /\ 1 <= W /\ ~All1D) => outcome = "ShapeError"

\* C7: in rolling_apply and expanding_apply a non-integer window, 1-D
\* inputs of different lengths, or an input shorter than the window makes
\* the call fail with ConfigurationError, LengthMismatchError, RangeError
\* respectively, with func never invoked and no task handed to a worker.
C7_FailFast ==
    (IsApply /\ pc # "idle") =>
        LET failsWith(e) ==
                /\ Done /\ outcome = e /\ result = <<>>
                /\ funcCalls = 0 /\ tasks = <<>> /\ completed = <<>>
        IN  /\ ~call.window.isInt => failsWith("ConfigurationError")
            /\ (call.window.isInt /\ All1D /\ ~SameSize) => failsWith("LengthMismatchError")
            /\ (call.window.isInt /\ All1D /\ SameSize /\ Len(Seq1) < W)
                  => failsWith("RangeError")

C7_Witness ==
    /\ Done /\ call.op = "rolling_apply" /\ call.n_jobs > 1 /\ call.poison = 0
    /\ call.arrays = <<Array1D(<<1, 2>>)>> /\ call.window = [isInt |-> TRUE, val |-> 3]
    /\ outcome = "RangeError" /\ funcCalls = 0

\* the index windows of the call in progress, once its checks have passed
CallWindows ==
    IF call.op = "rolling_apply" THEN rolling_apply_pre(call.window, call.arrays)
    ELSE expanding_apply_pre(call.window, call.arrays)
RaisesAt(idxs) ==
    apply_func_to_arrays(call.func, call.poison, call.arrays, idxs).err = "UserFunctionError"

\* C8: if func raises for some window of a rolling_apply or
\* expanding_apply call, the call fails with that error and returns no
\* result, sequentially and in parallel; no result is set before the call
\* is over.
C8_FuncFailureFailsCall ==
    /\ pc = "parallel" => result = <<>>
    /\ (Done /\ IsApply /\ CallWindows.err = "ok"
          /\ \E k \in 1..Len(CallWindows.rows) : RaisesAt(CallWindows.rows[k]))
        => (outcome = "UserFunctionError" /\ result = <<>>)

\* the second of three windows raises after the first has returned a value
C8_Witness ==
    /\ Done /\ call.op = "rolling_apply" /\ call.poison = 1
    /\ call.arrays = <<Array1D(<<2, 2, 1>>)>> /\ call.window = [isInt |-> TRUE, val |-> 2]
    /\ outcome = "UserFunctionError" /\ funcCalls = 2

\* C9: an integer window / min_periods that is zero or negative is
\* rejected with ConfigurationError by rolling, expanding, rolling_apply
\* and expanding_apply, before any window is produced or func is invoked.
C9_NonPositiveWindowRejected ==
    (Done /\ call.op \in {"rolling", "expanding", "rolling_apply", "expanding_apply"}
          /\ call.window.isInt /\ W <= 0)
        => (outcome = "ConfigurationError" /\ result = <<>> /\ funcCalls = 0)

\* C10: expstep_range(start, end, min_step, step_mult) with min_step > 0
\* and step_mult > 0 contains end whenever the accumulated steps land
\* exactly on end.
C10_EndIncluded ==
    (Done /\ call.op = "expstep_range" /\ outcome = "ok"
          /\ call.range.start # call.range.end /\ last = call.range.end)
        => \E i \in 1..Len(result) : result[i] = call.range.end

====
